---- MODULE Spec2Model ----
(***************************************************************************)
(* Model of config-rs file resolution and JSON ingestion:                  *)
(*   src/src/file/source/file.rs   FileSourceFile::find_file, resolve,     *)
(*                                 path_relative_from                      *)
(*   src/src/file/format/json.rs   parse, from_json_value                  *)
(*                                                                         *)
(* A path is a sequence of components, as std::path::Path::components()    *)
(* yields them.  A normal component is the sequence of the pieces of the   *)
(* file name between its dots ("Settings.json" is <<"Settings", "json">>,  *)
(* ".json" is <<"", "json">>); the root, "." and ".." are the one-piece    *)
(* components RootDir, CurDir and ParentDir.                               *)
(***************************************************************************)
EXTENDS Integers, Sequences, FiniteSets, TLC

VARIABLES
    files,      \* the regular files on disk (absolute paths)
    cwdOk,      \* whether env::current_dir() succeeds
    name,       \* FileSourceFile.name
    hint,       \* format_hint: a format, or NoFormat
    pc,         \* position of the resolve call
    found,      \* what find_file returned
    uri,        \* the uri local of resolve
    handle,     \* the open fs::File of resolve
    result,     \* what resolve returned
    relPath,    \* path_relative_from: argument path
    relBase,    \* path_relative_from: argument base
    relOut,     \* path_relative_from: returned value
    relPc,      \* position of the path_relative_from call
    text,       \* json::parse: the document in the text argument
    origin,     \* json::parse: the uri argument
    negZeroIsFloat, \* whether the serde_json of the build reads -0 as a float
    parseOut,   \* json::parse: returned value
    jsonPc      \* position of the json::parse call

rvars == <<files, cwdOk, name, hint, pc, found, uri, handle, result>>
pvars == <<relPath, relBase, relOut, relPc>>
jvars == <<text, origin, negZeroIsFloat, parseOut, jsonPc>>
vars == <<rvars, pvars, jvars>>

(***************************************************************************)
(* Bounds                                                                  *)
(***************************************************************************)
MaxFiles == 3       \* files present at once among the candidates of a name
MaxComps == 4       \* components of a path given to path_relative_from
JsonDepth == 2      \* nesting depth of a JSON document
IntBits == 3        \* width of the scaled-down i64/u64 (64 in the build)

(***************************************************************************)
(* Paths (std::path)                                                       *)
(***************************************************************************)
RootDir == <<"/">>
CurDir == <<".">>
ParentDir == <<"..">>

IsNormal(c) == c # RootDir /\ c # CurDir /\ c # ParentDir

\* Path::is_absolute (unix): the path starts at the root
IsAbsolute(p) == Len(p) > 0 /\ p[1] = RootDir

\* Path::join: an absolute argument replaces the receiver
Join(base, p) == IF IsAbsolute(p) THEN p ELSE base \o p

\* PathBuf::push of one component, as FromIterator<OsStr> for PathBuf does
Push(buf, c) == IF c = RootDir THEN <<c>> ELSE Append(buf, c)

RECURSIVE CollectFrom(_, _, _)
CollectFrom(buf, comps, i) ==
    IF i > Len(comps) THEN buf
    ELSE CollectFrom(Push(buf, comps[i]), comps, i + 1)

\* comps.iter().map(|c| c.as_os_str()).collect::<PathBuf>()
Collect(comps) == CollectFrom(<<>>, comps, 1)

\* Path::file_name: the last component when it is a normal one
HasFileName(p) == Len(p) > 0 /\ IsNormal(p[Len(p)])

\* Path::extension exists: the file name has a dot that is not its first
\* character (".json" has no extension, "a." has the empty one)
HasExtension(p) ==
    /\ HasFileName(p)
    /\ LET segs == p[Len(p)] IN
       /\ Len(segs) > 1
       /\ ~(Len(segs) = 2 /\ segs[1] = "")

\* filename.extension().unwrap_or_default().to_string_lossy()
ExtensionOrDefault(p) ==
    IF HasExtension(p) THEN LET segs == p[Len(p)] IN segs[Len(segs)] ELSE ""

\* Path::file_stem, as the pieces of the file name before the extension
FileStem(p) ==
    LET segs == p[Len(p)] IN
    IF HasExtension(p) THEN SubSeq(segs, 1, Len(segs) - 1) ELSE segs

\* PathBuf::set_extension(ext) for a non-empty ext: a path with no file
\* name is left as it is
SetExtension(p, ext) ==
    IF ~HasFileName(p) THEN p
    ELSE [p EXCEPT ![Len(p)] = Append(FileStem(p), ext)]

\* Path::to_string_lossy
RECURSIVE JoinWith(_, _, _)
JoinWith(segs, sep, i) ==
    IF i > Len(segs) THEN ""
    ELSE IF i = Len(segs) THEN segs[i]
    ELSE segs[i] \o sep \o JoinWith(segs, sep, i + 1)

RECURSIVE RenderFrom(_, _)
RenderFrom(p, i) ==
    IF i > Len(p) THEN ""
    ELSE LET c == JoinWith(p[i], ".", 1) IN
         IF i = Len(p) THEN c
         ELSE IF p[i] = RootDir THEN c \o RenderFrom(p, i + 1)
         ELSE c \o "/" \o RenderFrom(p, i + 1)

ToStringLossy(p) == RenderFrom(p, 1)

(***************************************************************************)
(* path_relative_from (file.rs:127-165)                                    *)
(***************************************************************************)
NoPath == [some |-> FALSE, value |-> <<>>]
SomePath(p) == [some |-> TRUE, value |-> p]

\* n times Component::ParentDir
Parents(n) == [k \in 1..n |-> ParentDir]

DivergeOneStepShort(path, base, i, comps) ==
    comps \o Parents(Len(base) - i) \o SubSeq(path, i, Len(path))

\* lines 152-160: the components differ at position i, the base's being a
\* normal one: a parent step for it and for each one left in itb, then the
\* rest of the path
Diverge(path, base, i, comps) ==
    comps \o <<ParentDir>> \o Parents(Len(base) - i) \o SubSeq(path, i, Len(path))

\* The loop of lines 140-162: ita and itb advance together, so one index i
\* is the position of both; comps is the vector built so far.
RECURSIVE RelLoop(_, _, _, _)
RelLoop(path, base, i, comps) ==
    LET hasA == i <= Len(path)
        hasB == i <= Len(base)
    IN
    IF ~hasA /\ ~hasB THEN SomePath(Collect(comps))
    ELSE IF hasA /\ ~hasB
        THEN SomePath(Collect(comps \o SubSeq(path, i, Len(path))))
    ELSE IF ~hasA
        THEN RelLoop(path, base, i + 1, Append(comps, ParentDir))
    ELSE IF comps = <<>> /\ path[i] = base[i]
        THEN RelLoop(path, base, i + 1, comps)
    ELSE IF base[i] = CurDir
        THEN RelLoop(path, base, i + 1, Append(comps, path[i]))
    ELSE IF base[i] = ParentDir
        THEN NoPath
    ELSE SomePath(Collect(Diverge(path, base, i, comps)))

path_relative_from(path, base) ==
    IF IsAbsolute(path) # IsAbsolute(base)
    THEN IF IsAbsolute(path) THEN SomePath(path) ELSE NoPath
    ELSE RelLoop(path, base, 1, <<>>)

(***************************************************************************)
(* Formats and the registry of extensions                                  *)
(***************************************************************************)
NoFormat == "None"

\* ALL_EXTENSIONS: the formats with their extensions, in iteration order
ALL_EXTENSIONS ==
    << [format |-> "Toml", extensions |-> <<"toml">>],
       [format |-> "Json", extensions |-> <<"json">>],
       [format |-> "Yaml", extensions |-> <<"yaml", "yml">>] >>

RegistryFormats == {ALL_EXTENSIONS[k].format : k \in 1..Len(ALL_EXTENSIONS)}

\* a format of the caller's own that is not in the registry
CustomFormat == "Custom"

Formats == RegistryFormats \cup {CustomFormat}

\* FileFormat::extensions: the registry's list for the format
Extensions(format) ==
    LET k == CHOOSE k \in 1..Len(ALL_EXTENSIONS) : ALL_EXTENSIONS[k].format = format
    IN ALL_EXTENSIONS[k].extensions

\* FileStoredFormat::file_extensions of a format hint
FileExtensions(format) ==
    IF format = CustomFormat THEN <<"cfg">> ELSE Extensions(format)

\* slice::contains
Contains(seq, x) == \E i \in 1..Len(seq) : seq[i] = x

(***************************************************************************)
(* FileSourceFile::find_file (file.rs:24-91)                               *)
(***************************************************************************)
Cwd == <<RootDir, <<"w">>>>

\* The errors are io::Error values: kind is the io::ErrorKind, msg the text
\* the error is built with ("os" for an error the operating system raised),
\* subject the path that the text quotes.
NoError == [kind |-> "None", msg |-> "", subject |-> <<>>]

\* lines 84-90
NotFoundError(nm) ==
    [kind |-> "NotFound", msg |-> "not found", subject |-> nm]

\* lines 49-55
UnregisteredFormatError(filename) ==
    [kind |-> "NotFound", msg |-> "is not of a registered file format",
     subject |-> filename]

\* an io::Error of env::current_dir, File::open or read_to_string
OsError(kind) == [kind |-> kind, msg |-> "os", subject |-> <<>>]

FindOk(path, format) ==
    [ok |-> TRUE, path |-> path, format |-> format, err |-> NoError]
FindErr(e) ==
    [ok |-> FALSE, path |-> <<>>, format |-> NoFormat, err |-> e]

\* Path::is_file
IsFile(p, fs) == p \in fs

\* lines 37-47: the first format of the registry whose extensions hold ext
RECURSIVE LookupFrom(_, _)
LookupFrom(ext, k) ==
    IF k > Len(ALL_EXTENSIONS) THEN NoFormat
    ELSE IF Contains(ALL_EXTENSIONS[k].extensions, ext) THEN ALL_EXTENSIONS[k].format
    ELSE LookupFrom(ext, k + 1)

\* ASCII lower-casing of the extensions that occur in the model
ToLower(ext) ==
    CASE ext = "JSON" -> "json"
      [] OTHER -> ext

LookupLower(ext) == LookupFrom(ToLower(ext), 1)

Lookup(ext) == LookupFrom(ext, 1)

ExactMatchInferred(filename, format_hint) ==
    LET format == Lookup(ExtensionOrDefault(filename)) IN
    IF format # NoFormat THEN FindOk(filename, format)
    ELSE FindErr(UnregisteredFormatError(filename))

\* lines 34-57: the exact match exists
ExactMatch(filename, format_hint) ==
    IF format_hint # NoFormat THEN FindOk(filename, format_hint)
    ELSE LET format == Lookup(ExtensionOrDefault(filename)) IN
         IF format # NoFormat THEN FindOk(filename, format)
         ELSE FindErr(UnregisteredFormatError(filename))

\* the inner loop of lines 62-68 and 73-79: filename is the variable the
\* loop mutates; when no candidate exists the record carries it on
RECURSIVE ProbeExtensions(_, _, _, _, _)
ProbeExtensions(filename, format, exts, i, fs) ==
    IF i > Len(exts) THEN [ok |-> FALSE, path |-> filename, format |-> NoFormat]
    ELSE LET candidate == SetExtension(filename, exts[i]) IN
         IF IsFile(candidate, fs)
         THEN [ok |-> TRUE, path |-> candidate, format |-> format]
         ELSE ProbeExtensions(candidate, format, exts, i + 1, fs)

\* lines 72-80: the registry's formats in order
RECURSIVE ProbeRegistryFrom(_, _, _)
ProbeRegistryFrom(filename, k, fs) ==
    IF k > Len(ALL_EXTENSIONS) THEN [ok |-> FALSE, path |-> filename, format |-> NoFormat]
    ELSE LET format == ALL_EXTENSIONS[k].format
             r == ProbeExtensions(filename, format, Extensions(format), 1, fs)
         IN IF r.ok THEN r ELSE ProbeRegistryFrom(r.path, k + 1, fs)

RECURSIVE ProbeRegistryLast(_, _, _, _)
ProbeRegistryLast(filename, k, fs, best) ==
    IF k > Len(ALL_EXTENSIONS) THEN best
    ELSE LET format == ALL_EXTENSIONS[k].format
             r == ProbeExtensions(filename, format, Extensions(format), 1, fs)
         IN ProbeRegistryLast(filename, k + 1, fs, IF r.ok THEN r ELSE best)

ProbeAllLastWins(filename, fs) ==
    ProbeRegistryLast(filename, 1, fs, [ok |-> FALSE, path |-> filename, format |-> NoFormat])

\* lines 71-81
ProbeAll(filename, fs) == ProbeRegistryFrom(filename, 1, fs)

ProbeHintThenAll(filename, format, fs) ==
    LET r == ProbeExtensions(filename, format, FileExtensions(format), 1, fs) IN
    IF r.ok THEN r ELSE ProbeAll(filename, fs)

\* lines 61-69
ProbeHint(filename, format, fs) ==
    ProbeExtensions(filename, format, FileExtensions(format), 1, fs)

find_file_fallthrough(nm, format_hint, fs, cwd_ok) ==
    LET filename == Join(Cwd, nm)
        exact == IF IsFile(filename, fs) THEN ExactMatch(filename, format_hint)
                 ELSE FindErr(NotFoundError(nm))
        r == IF format_hint # NoFormat THEN ProbeHint(filename, format_hint, fs)
             ELSE ProbeAll(filename, fs)
    IN
    IF ~cwd_ok THEN FindErr(OsError("NotFound"))
    ELSE IF exact.ok THEN exact
    ELSE IF r.ok THEN FindOk(r.path, r.format)
    ELSE exact

find_file(nm, format_hint, fs, cwd_ok) ==
    IF ~cwd_ok THEN FindErr(OsError("NotFound"))
    ELSE LET filename == Join(Cwd, nm) IN
         IF IsFile(filename, fs) THEN ExactMatch(filename, format_hint)
         ELSE LET r == IF format_hint # NoFormat
                       THEN ProbeHint(filename, format_hint, fs)
                       ELSE ProbeAll(filename, fs)
              IN IF r.ok THEN FindOk(r.path, r.format)
                 ELSE FindErr(NotFoundError(nm))

(***************************************************************************)
(* FileSource::resolve (file.rs:98-122), one call, with the other          *)
(* processes that change the disk while it runs                            *)
(***************************************************************************)
NoHandle == <<>>

Failure(e) ==
    [ok |-> FALSE, err |-> e, uri |-> "", content |-> <<>>, format |-> NoFormat]
Success(u, content, format) ==
    [ok |-> TRUE, err |-> NoError, uri |-> u, content |-> content, format |-> format]
Pending == Failure(NoError)
NotCalled == FindErr(NoError)

OpenFileNotFound(filename, fs) ==
    IF filename \in fs THEN [ok |-> TRUE, file |-> filename, err |-> NoError]
    ELSE [ok |-> FALSE, file |-> NoHandle, err |-> NotFoundError(filename)]

\* fs::File::open(filename)?  (line 113): a missing file is the system's
\* ENOENT, an io::Error of kind NotFound
OpenFile(filename, fs) ==
    IF filename \in fs THEN [ok |-> TRUE, file |-> filename, err |-> NoError]
    ELSE [ok |-> FALSE, file |-> NoHandle, err |-> OsError("NotFound")]

\* the names a FileSourceFile is constructed with
Names ==
    { << <<"Settings">> >>,
      << <<"Settings", "json">> >>,
      << <<"Settings", "JSON">> >>,
      << <<"Settings", "txt">> >>,
      << <<"", "json">> >>,
      << RootDir, <<"etc">>, <<"app", "yaml">> >>,
      << ParentDir >> }

ProbedExtensions == {"toml", "json", "yaml", "yml", "cfg"}

\* the paths find_file can test for a name
Candidates(nm) ==
    LET filename == Join(Cwd, nm) IN
    IF HasFileName(filename)
    THEN {filename} \cup {SetExtension(filename, e) : e \in ProbedExtensions}
    ELSE {}

InitOther(group) ==
    /\ "p" \in group =>
        relPath = <<>> /\ relBase = <<>> /\ relOut = NoPath /\ relPc = "off"
    /\ "j" \in group =>
        /\ text = [type |-> "null"] /\ origin = "None" /\ negZeroIsFloat = TRUE
        /\ parseOut = [ok |-> TRUE, err |-> "None", table |-> <<>>] /\ jsonPc = "off"
    /\ "r" \in group =>
        /\ files = {} /\ cwdOk = TRUE /\ name = <<>> /\ hint = NoFormat
        /\ pc = "off" /\ found = NotCalled /\ uri = <<>> /\ handle = NoHandle
        /\ result = Pending

Init ==
    /\ name \in Names
    /\ hint \in Formats \cup {NoFormat}
    /\ files \in {fs \in SUBSET Candidates(name) : Cardinality(fs) <= MaxFiles}
    /\ cwdOk \in BOOLEAN
    /\ pc = "start"
    /\ found = NotCalled
    /\ uri = <<>>
    /\ handle = NoHandle
    /\ result = Pending
    /\ InitOther({"p", "j"})

\* line 103: let (filename, format) = self.find_file(format_hint)?
FindFile ==
    /\ pc = "start"
    /\ found' = find_file(name, hint, files, cwdOk)
    /\ IF found'.ok
       THEN pc' = "found" /\ UNCHANGED result
       ELSE pc' = "done" /\ result' = Failure(found'.err)
    /\ UNCHANGED <<files, cwdOk, name, hint, uri, handle, pvars, jvars>>

\* lines 106-110: the uri is the path relative to the working directory
Relativize ==
    /\ pc = "found"
    /\ IF ~cwdOk
       THEN pc' = "done" /\ result' = Failure(OsError("NotFound")) /\ UNCHANGED uri
       ELSE /\ LET r == path_relative_from(found.path, Cwd) IN
               uri' = IF r.some THEN r.value ELSE found.path
            /\ pc' = "uri"
            /\ UNCHANGED result
    /\ UNCHANGED <<files, cwdOk, name, hint, found, handle, pvars, jvars>>

\* line 113
Open ==
    /\ pc = "uri"
    /\ LET o == OpenFile(found.path, files) IN
       IF o.ok
       THEN handle' = o.file /\ pc' = "opened" /\ UNCHANGED result
       ELSE pc' = "done" /\ result' = Failure(o.err) /\ UNCHANGED handle
    /\ UNCHANGED <<files, cwdOk, name, hint, found, uri, pvars, jvars>>

\* lines 114-121: read_to_string fails on text that is not UTF-8; content
\* is the text of the opened file, named by the file it was read from
Read ==
    /\ pc = "opened"
    /\ \E utf8 \in BOOLEAN :
        result' = IF utf8
                  THEN Success(ToStringLossy(uri), handle, found.format)
                  ELSE Failure(OsError("InvalidData"))
    /\ pc' = "done"
    /\ handle' = NoHandle
    /\ UNCHANGED <<files, cwdOk, name, hint, found, uri, pvars, jvars>>

\* another process deletes a file
DeleteFile ==
    /\ pc \in {"found", "uri", "opened"}
    /\ \E p \in files : files' = files \ {p}
    /\ UNCHANGED <<cwdOk, name, hint, pc, found, uri, handle, result, pvars, jvars>>

\* another process creates a file
CreateFile ==
    /\ pc \in {"found", "uri", "opened"}
    /\ Cardinality(files) < MaxFiles
    /\ \E p \in Candidates(name) \ files : files' = files \cup {p}
    /\ UNCHANGED <<cwdOk, name, hint, pc, found, uri, handle, result, pvars, jvars>>

\* another process removes the working directory
RemoveCwd ==
    /\ pc \in {"found", "uri", "opened"}
    /\ cwdOk
    /\ cwdOk' = FALSE
    /\ UNCHANGED <<files, name, hint, pc, found, uri, handle, result, pvars, jvars>>

Next ==
    \/ FindFile
    \/ Relativize
    \/ Open
    \/ Read
    \/ DeleteFile
    \/ CreateFile
    \/ RemoveCwd

Spec == Init /\ [][Next]_vars

(***************************************************************************)
(* Properties of find_file and resolve                                     *)
(***************************************************************************)
\* the step in which find_file runs
FindStep == pc = "start" /\ pc' # "start"

\* the exact match: the working directory joined with the name
Exact == Join(Cwd, name)

\* the classes of error of a resolution, by the text of the error
ErrorClass(e) ==
    CASE e.msg = "not found" -> "NotFound"
      [] e.msg = "is not of a registered file format" -> "UnregisteredFormat"
      [] e.msg = "os" -> "IOError"
      [] OTHER -> "None"

\* the registry's extensions with their formats, in iteration order
RECURSIVE RegistryOrderFrom(_)
RegistryOrderFrom(k) ==
    IF k > Len(ALL_EXTENSIONS) THEN <<>>
    ELSE [i \in 1..Len(ALL_EXTENSIONS[k].extensions) |->
            [format |-> ALL_EXTENSIONS[k].format,
             ext |-> ALL_EXTENSIONS[k].extensions[i]]]
         \o RegistryOrderFrom(k + 1)

RegistryOrder == RegistryOrderFrom(1)

RegisteredExtensions == {RegistryOrder[i].ext : i \in 1..Len(RegistryOrder)}

\* the extension of a file name, read off its pieces
OwnExtension(p) ==
    LET segs == p[Len(p)] IN
    IF Len(segs) = 1 \/ (Len(segs) = 2 /\ segs[1] = "") THEN "" ELSE segs[Len(segs)]

\* C1: when the exact match exists and a hint F is given, find_file returns
\* exactly that path with format F, whatever the file's own extension is.
C1_HintAcceptsExactMatch ==
    [][(FindStep /\ cwdOk /\ hint # NoFormat /\ Exact \in files)
        => found' = FindOk(Exact, hint)]_vars

\* C1 witness: Settings.json was accepted as the hinted format, although json
\* is not an extension of the hint and belongs to another registered format.
C1_Witness ==
    /\ pc = "found" /\ hint # NoFormat
    /\ found.ok /\ found.path = Exact /\ found.format = hint
    /\ ~Contains(FileExtensions(hint), OwnExtension(Exact))
    /\ OwnExtension(Exact) \in RegisteredExtensions

\* C2: with a hint F and no exact match, find_file returns a candidate with
\* one of F's own extensions when one exists, and otherwise fails with the
\* not-found error that names the original name, also when the name exists
\* under the extension of another format.
C2_HintProbesOwnExtensions ==
    [][(FindStep /\ cwdOk /\ hint # NoFormat /\ Exact \notin files) =>
        LET own == {SetExtension(Exact, FileExtensions(hint)[i]) :
                        i \in 1..Len(FileExtensions(hint))}
        IN IF own \cap files = {}
           THEN found' = FindErr(NotFoundError(name))
           ELSE found'.ok /\ found'.format = hint /\ found'.path \in own \cap files]_vars

\* C2 witness: not found under the hint, while the name exists under an
\* extension of another registered format.
C2_Witness ==
    /\ pc = "done" /\ hint # NoFormat /\ ~found.ok
    /\ ErrorClass(result.err) = "NotFound" /\ result.err.subject = name
    /\ \E e \in RegisteredExtensions :
        /\ ~Contains(FileExtensions(hint), e)
        /\ SetExtension(Exact, e) \in files

\* C3: with no hint and no exact match, find_file returns the first candidate
\* in registry order that exists, with the format owning its extension, and
\* fails with the not-found error when none exists.
C3_FirstInRegistryOrderWins ==
    [][(FindStep /\ cwdOk /\ hint = NoFormat /\ Exact \notin files) =>
        LET hits == {i \in 1..Len(RegistryOrder) :
                        SetExtension(Exact, RegistryOrder[i].ext) \in files}
        IN IF hits = {}
           THEN found' = FindErr(NotFoundError(name))
           ELSE LET first == CHOOSE i \in hits : \A j \in hits : i <= j IN
                found' = FindOk(SetExtension(Exact, RegistryOrder[first].ext),
                                RegistryOrder[first].format)]_vars

\* C3 witness: the json candidate won while a later candidate (yml) exists too.
C3_Witness ==
    /\ pc = "found" /\ hint = NoFormat
    /\ found.ok /\ found.path # Exact
    /\ found.path = SetExtension(Exact, "json") /\ found.format = "Json"
    /\ SetExtension(Exact, "yml") \in files
    /\ SetExtension(Exact, "toml") \notin files

\* C4: an exact match whose extension no format registers, with no hint, fails
\* with the unregistered-format error naming that path; no probing follows.
C4_UnregisteredExactMatchFails ==
    [][(FindStep /\ cwdOk /\ hint = NoFormat /\ Exact \in files
            /\ OwnExtension(Exact) \notin RegisteredExtensions)
        => found' = FindErr(UnregisteredFormatError(Exact))]_vars

\* C4 witness: a file without extension was rejected while name.json exists.
C4_Witness ==
    /\ pc = "done" /\ hint = NoFormat /\ ~found.ok
    /\ ErrorClass(result.err) = "UnregisteredFormat" /\ result.err.subject = Exact
    /\ OwnExtension(Exact) = ""
    /\ Exact \in files /\ SetExtension(Exact, "json") \in files

\* C5: when the file find_file selected is gone at the open, resolve ends at
\* once with the operating system's error of the open, not the not-found
\* error of find_file, and with no FileSourceResult.
C5_DeletedBeforeOpenIsIOError ==
    [][(pc = "uri" /\ pc' # "uri" /\ found.path \notin files) =>
        /\ pc' = "done" /\ handle' = NoHandle
        /\ ~result'.ok
        /\ ErrorClass(result'.err) = "IOError"
        /\ ErrorClass(result'.err) # "NotFound"]_vars

\* C5 witness: find_file succeeded, the file was deleted, the open failed.
C5_Witness ==
    /\ pc = "done" /\ found.ok /\ found.path \notin files
    /\ ~result.ok /\ result.err = OsError("NotFound") /\ cwdOk

\* C10 as stated: an exact match whose extension is registered up to letter
\* case is accepted with that extension's format.
C10_CaseNormalized ==
    [][(FindStep /\ cwdOk /\ hint = NoFormat /\ Exact \in files
            /\ ToLower(OwnExtension(Exact)) \in RegisteredExtensions)
        => found'.ok /\ found'.path = Exact
            /\ Contains(Extensions(found'.format), ToLower(OwnExtension(Exact)))]_vars

\* C10 amended: the extension is looked up as it is written: the exact match
\* is accepted exactly when a format registers that very extension, and an
\* extension that differs from a registered one in letter case only is
\* rejected as an unregistered format.
C10_CaseSensitiveLookup ==
    [][(FindStep /\ cwdOk /\ hint = NoFormat /\ Exact \in files) =>
        /\ found'.ok <=> OwnExtension(Exact) \in RegisteredExtensions
        /\ found'.ok => /\ found'.path = Exact
                        /\ Contains(Extensions(found'.format), OwnExtension(Exact))
        /\ (OwnExtension(Exact) \notin RegisteredExtensions
                /\ ToLower(OwnExtension(Exact)) \in RegisteredExtensions)
            => found' = FindErr(UnregisteredFormatError(Exact))]_vars

\* C10 witness: Settings.JSON was rejected as an unregistered format.
C10_Witness ==
    /\ pc = "done" /\ hint = NoFormat /\ ~found.ok
    /\ ErrorClass(result.err) = "UnregisteredFormat" /\ result.err.subject = Exact
    /\ Exact \in files
    /\ OwnExtension(Exact) # ToLower(OwnExtension(Exact))
    /\ ToLower(OwnExtension(Exact)) \in RegisteredExtensions

(***************************************************************************)
(* path_relative_from on its own: one call on paths of at most MaxComps    *)
(* components                                                              *)
(***************************************************************************)
NormalComps == {<<"a">>, <<"b">>}

\* Path::components yields the root and "." as the first component only
FirstComps == NormalComps \cup {RootDir, CurDir, ParentDir}
LaterComps == NormalComps \cup {ParentDir}

PathsOfLen(n) ==
    {p \in [1..n -> FirstComps \cup LaterComps] :
        \A i \in 2..n : p[i] \in LaterComps}

Paths == UNION {PathsOfLen(n) : n \in 0..MaxComps}

InitRel ==
    /\ relPath \in Paths
    /\ relBase \in Paths
    /\ relOut = NoPath
    /\ relPc = "call"
    /\ InitOther({"r", "j"})

RelativeFrom ==
    /\ relPc = "call"
    /\ relOut' = path_relative_from(relPath, relBase)
    /\ relPc' = "done"
    /\ UNCHANGED <<relPath, relBase, rvars, jvars>>

NextRel == RelativeFrom

SpecRel == InitRel /\ [][NextRel]_vars

Min(a, b) == IF a <= b THEN a ELSE b

\* the length of the longest common leading prefix of two paths
CommonPrefix(p, q) ==
    CHOOSE k \in 0..Min(Len(p), Len(q)) :
        /\ \A i \in 1..k : p[i] = q[i]
        /\ k = Min(Len(p), Len(q)) \/ p[k + 1] # q[k + 1]

NoDots(p) == \A i \in 1..Len(p) : p[i] # CurDir /\ p[i] # ParentDir

\* C8: for paths of the same absoluteness without "." and "..", the result is
\* one parent step for each base component after the common prefix, then the
\* path components after the common prefix.
C8_RelativeOfPlainPaths ==
    (/\ relPc = "done"
     /\ IsAbsolute(relPath) = IsAbsolute(relBase)
     /\ NoDots(relPath) /\ NoDots(relBase))
    => LET k == CommonPrefix(relPath, relBase) IN
       relOut = SomePath(Parents(Len(relBase) - k)
                         \o SubSeq(relPath, k + 1, Len(relPath)))

\* C8 witness: absolute paths that share a prefix and then differ, both with
\* components left: the result starts with parent steps.
C8_Witness ==
    /\ relPc = "done"
    /\ IsAbsolute(relPath) /\ IsAbsolute(relBase)
    /\ NoDots(relPath) /\ NoDots(relBase)
    /\ LET k == CommonPrefix(relPath, relBase) IN
       /\ k >= 2 /\ Len(relPath) > k /\ Len(relBase) > k
       /\ relOut.some
       /\ relOut.value = <<ParentDir, relPath[k + 1]>>

\* C9: when the base has a ".." at or after the first position at which the
\* two paths have different components, the result is None.
C9_BaseParentDirGivesNone ==
    (/\ relPc = "done"
     /\ IsAbsolute(relPath) = IsAbsolute(relBase)
     /\ LET k == CommonPrefix(relPath, relBase) IN
        /\ k < Len(relPath) /\ k < Len(relBase)
        /\ \E j \in (k + 1)..Len(relBase) : relBase[j] = ParentDir)
    => relOut = NoPath

(***************************************************************************)
(* JSON ingestion (json.rs)                                                *)
(*                                                                         *)
(* The text argument is modelled by the document it spells: a tree of      *)
(* records, or Malformed for a text serde_json::from_str rejects.  A       *)
(* numeric literal is [neg, mag, frac, exp]: its sign, its integer digits, *)
(* whether it has a fraction part and whether it has an exponent.  The     *)
(* 64-bit integers are scaled down to IntBits bits.                        *)
(***************************************************************************)
I64Max == 2^(IntBits - 1) - 1
I64Min == -(2^(IntBits - 1))
U64Max == 2^IntBits - 1
MaxMag == 2^IntBits + 1

Malformed == [type |-> "malformed"]

NumLits ==
    {[type |-> "number", neg |-> n, mag |-> m, frac |-> f, exp |-> e] :
        n \in BOOLEAN, m \in 0..MaxMag, f \in BOOLEAN, e \in BOOLEAN}

Scalars ==
    {[type |-> "null"], [type |-> "bool", b |-> TRUE], [type |-> "bool", b |-> FALSE],
     [type |-> "string", s |-> "hello"]} \cup NumLits

Keys == {"k"}

\* the documents nested at most d deep; an array has at most one item
RECURSIVE Docs(_)
Docs(d) ==
    IF d = 0 THEN Scalars
    ELSE LET inner == Docs(d - 1) IN
         Scalars
         \cup {[type |-> "array", items |-> <<>>]}
         \cup {[type |-> "array", items |-> <<x>>] : x \in inner}
         \cup UNION {{[type |-> "object", members |-> m] : m \in [K -> inner]} :
                        K \in SUBSET Keys}

\* the f64 a literal denotes
FloatOf(neg, mag, frac, exp) == [neg |-> neg, mag |-> mag, frac |-> frac, exp |-> exp]

PosInt(u) == [repr |-> "PosInt", int |-> u, float |-> FloatOf(FALSE, 0, FALSE, FALSE)]
NegInt(i) == [repr |-> "NegInt", int |-> i, float |-> FloatOf(FALSE, 0, FALSE, FALSE)]
Float(f) == [repr |-> "Float", int |-> 0, float |-> f]

\* serde_json's reading of a numeric literal into a Number: an integer
\* literal is a PosInt when it fits u64, a NegInt when it is negative and
\* fits i64, and a Float otherwise; -0 is a Float or the integer 0, by the
\* version of serde_json
ParseNumber(lit, neg_zero_is_float) ==
    IF lit.frac \/ lit.exp THEN Float(FloatOf(lit.neg, lit.mag, lit.frac, lit.exp))
    ELSE IF ~lit.neg
        THEN IF lit.mag <= U64Max THEN PosInt(lit.mag)
             ELSE Float(FloatOf(FALSE, lit.mag, FALSE, FALSE))
    ELSE IF lit.mag = 0
        THEN IF neg_zero_is_float THEN Float(FloatOf(TRUE, 0, FALSE, FALSE))
             ELSE PosInt(0)
    ELSE IF -lit.mag >= I64Min THEN NegInt(-lit.mag)
    ELSE Float(FloatOf(TRUE, lit.mag, FALSE, FALSE))

\* serde_json::from_str(text) of line 12, for a text it accepts
RECURSIVE Deserialize(_, _)
Deserialize(doc, nz) ==
    CASE doc.type = "number" -> [type |-> "Number", n |-> ParseNumber(doc, nz)]
      [] doc.type = "null" -> [type |-> "Null"]
      [] doc.type = "bool" -> [type |-> "Bool", b |-> doc.b]
      [] doc.type = "string" -> [type |-> "String", s |-> doc.s]
      [] doc.type = "array" ->
            [type |-> "Array",
             items |-> [i \in 1..Len(doc.items) |-> Deserialize(doc.items[i], nz)]]
      [] doc.type = "object" ->
            [type |-> "Object",
             members |-> [k \in DOMAIN doc.members |-> Deserialize(doc.members[k], nz)]]

None == [some |-> FALSE, v |-> 0]
Some(v) == [some |-> TRUE, v |-> v]

as_i64_wrapping(n) ==
    CASE n.repr = "PosInt" ->
            Some(IF n.int <= I64Max THEN n.int ELSE n.int - 2^IntBits)
      [] n.repr = "NegInt" -> Some(n.int)
      [] n.repr = "Float" -> None

\* serde_json::Number::as_i64 (line 25)
as_i64(n) ==
    CASE n.repr = "PosInt" -> IF n.int <= I64Max THEN Some(n.int) ELSE None
      [] n.repr = "NegInt" -> Some(n.int)
      [] n.repr = "Float" -> None

\* serde_json::Number::as_f64 (line 27)
as_f64(n) ==
    CASE n.repr = "PosInt" -> Some(FloatOf(FALSE, n.int, FALSE, FALSE))
      [] n.repr = "NegInt" -> Some(FloatOf(TRUE, -n.int, FALSE, FALSE))
      [] n.repr = "Float" -> Some(n.float)

\* Value::new(uri, kind)
NewValue(u, kind) == [origin |-> u, kind |-> kind]

\* lines 24-32
FromNumber(u, n) ==
    IF as_i64(n).some THEN NewValue(u, [tag |-> "Integer", v |-> as_i64(n).v])
    ELSE IF as_f64(n).some THEN NewValue(u, [tag |-> "Float", v |-> as_f64(n).v])
    ELSE NewValue(u, [tag |-> "Unreachable"])

\* lines 20-58
RECURSIVE from_json_value(_, _)
from_json_value(u, value) ==
    CASE value.type = "String" -> NewValue(u, [tag |-> "String", v |-> value.s])
      [] value.type = "Number" -> FromNumber(u, value.n)
      [] value.type = "Bool" -> NewValue(u, [tag |-> "Boolean", v |-> value.b])
      [] value.type = "Object" ->
            NewValue(u, [tag |-> "Table",
                         v |-> [k \in DOMAIN value.members |->
                                    from_json_value(u, value.members[k])]])
      [] value.type = "Array" ->
            NewValue(u, [tag |-> "Array",
                         v |-> [i \in 1..Len(value.items) |->
                                    from_json_value(u, value.items[i])]])
      [] value.type = "Null" -> NewValue(u, [tag |-> "Nil"])

\* whether the conversion reached unreachable!() of line 30
RECURSIVE Panicked(_)
Panicked(value) ==
    CASE value.kind.tag = "Unreachable" -> TRUE
      [] value.kind.tag = "Table" ->
            \E k \in DOMAIN value.kind.v : Panicked(value.kind.v[k])
      [] value.kind.tag = "Array" ->
            \E i \in 1..Len(value.kind.v) : Panicked(value.kind.v[i])
      [] OTHER -> FALSE

EmptyMap == <<>>
ParseOk(map) == [ok |-> TRUE, err |-> "None", table |-> map]
ParseErr(e) == [ok |-> FALSE, err |-> e, table |-> EmptyMap]

parse_rejecting_root(u, doc, nz) ==
    IF doc = Malformed THEN ParseErr("ParseError")
    ELSE LET value == from_json_value(u, Deserialize(doc, nz)) IN
         IF Panicked(value) THEN ParseErr("Panic")
         ELSE IF value.kind.tag = "Table" THEN ParseOk(value.kind.v)
         ELSE ParseErr("ParseError")

\* lines 6-18
parse(u, doc, nz) ==
    IF doc = Malformed THEN ParseErr("ParseError")
    ELSE LET value == from_json_value(u, Deserialize(doc, nz)) IN
         IF Panicked(value) THEN ParseErr("Panic")
         ELSE IF value.kind.tag = "Table" THEN ParseOk(value.kind.v)
         ELSE ParseOk(EmptyMap)

InitJson ==
    /\ text \in Docs(JsonDepth) \cup {Malformed}
    /\ origin \in {"None", "Settings.json"}
    /\ negZeroIsFloat \in BOOLEAN
    /\ parseOut = ParseOk(EmptyMap)
    /\ jsonPc = "call"
    /\ InitOther({"r", "p"})

Parse ==
    /\ jsonPc = "call"
    /\ parseOut' = parse(origin, text, negZeroIsFloat)
    /\ jsonPc' = "done"
    /\ UNCHANGED <<text, origin, negZeroIsFloat, rvars, pvars>>

NextJson == Parse

SpecJson == InitJson /\ [][NextJson]_vars

(***************************************************************************)
(* Properties of JSON parse                                                *)
(***************************************************************************)
\* C6: a well-formed document whose root is not an object parses to the empty
\* table, never to an error, whatever the origin is.
C6_NonObjectRootGivesEmptyTable ==
    (jsonPc = "done" /\ text # Malformed /\ text.type # "object")
    => parseOut = ParseOk(EmptyMap)

\* C6 witness: a non-empty array with an origin given parsed to the empty table.
C6_Witness ==
    /\ jsonPc = "done" /\ origin # "None"
    /\ text # Malformed /\ text.type = "array" /\ Len(text.items) = 1
    /\ parseOut.ok /\ parseOut.table = EmptyMap

\* the number a literal without fraction and exponent spells
Signed(lit) == IF lit.neg THEN -lit.mag ELSE lit.mag

PlainInteger(lit) == ~lit.frac /\ ~lit.exp

IsInteger(value, n) == value.kind.tag = "Integer" /\ value.kind.v = n
IsFloat(value, f) == value.kind.tag = "Float" /\ value.kind.v = f

\* C7 as stated, for one document and the value made of it: a literal with
\* no fraction and no exponent is an Integer holding its number, every other
\* literal a Float
RECURSIVE NumbersAsStated(_, _)
NumbersAsStated(doc, value) ==
    CASE doc.type = "number" ->
            IF PlainInteger(doc)
            THEN IsInteger(value, Signed(doc))
            ELSE value.kind.tag = "Float"
      [] doc.type = "array" ->
            /\ value.kind.tag = "Array"
            /\ Len(value.kind.v) = Len(doc.items)
            /\ \A i \in 1..Len(doc.items) : NumbersAsStated(doc.items[i], value.kind.v[i])
      [] doc.type = "object" ->
            /\ value.kind.tag = "Table"
            /\ DOMAIN value.kind.v = DOMAIN doc.members
            /\ \A k \in DOMAIN doc.members : NumbersAsStated(doc.members[k], value.kind.v[k])
      [] OTHER -> TRUE

\* C7 as stated: every numeric literal of a parsed document, at any depth,
\* is an Integer holding its number when it has no fraction and no exponent,
\* and a Float otherwise; the unreachable branch is never taken.
C7_IntegerIffNoFractionNoExponent ==
    (jsonPc = "done" /\ text # Malformed /\ text.type = "object")
    => /\ parseOut.ok
       /\ DOMAIN parseOut.table = DOMAIN text.members
       /\ \A k \in DOMAIN text.members :
            NumbersAsStated(text.members[k], parseOut.table[k])

\* C7 amended, for one document and the value made of it
RECURSIVE NumbersByRange(_, _)
NumbersByRange(doc, value) ==
    CASE doc.type = "number" ->
            IF PlainInteger(doc) /\ doc.neg /\ doc.mag = 0
            THEN \/ IsInteger(value, 0)
                 \/ IsFloat(value, FloatOf(TRUE, 0, FALSE, FALSE))
            ELSE IF PlainInteger(doc) /\ Signed(doc) >= I64Min /\ Signed(doc) <= I64Max
            THEN IsInteger(value, Signed(doc))
            ELSE IsFloat(value, FloatOf(doc.neg, doc.mag, doc.frac, doc.exp))
      [] doc.type = "array" ->
            /\ value.kind.tag = "Array"
            /\ Len(value.kind.v) = Len(doc.items)
            /\ \A i \in 1..Len(doc.items) : NumbersByRange(doc.items[i], value.kind.v[i])
      [] doc.type = "object" ->
            /\ value.kind.tag = "Table"
            /\ DOMAIN value.kind.v = DOMAIN doc.members
            /\ \A k \in DOMAIN doc.members : NumbersByRange(doc.members[k], value.kind.v[k])
      [] OTHER -> TRUE

\* C7 amended: a literal with no fraction and no exponent whose number lies in
\* the range of the signed 64-bit integers is an Integer holding that number
\* (-0 is Integer 0 or Float -0.0, by the version of serde_json); a literal
\* with a fraction or an exponent, and an integer literal outside that range,
\* is a Float; the unreachable branch is never taken.
C7_IntegerIffInI64Range ==
    (jsonPc = "done" /\ text # Malformed /\ text.type = "object")
    => /\ parseOut.ok
       /\ DOMAIN parseOut.table = DOMAIN text.members
       /\ \A k \in DOMAIN text.members :
            NumbersByRange(text.members[k], parseOut.table[k])

\* C7 witness: the integer literal one above the largest i64, inside an array
\* inside the root object, became a Float.
C7_Witness ==
    /\ jsonPc = "done" /\ text # Malformed /\ text.type = "object"
    /\ "k" \in DOMAIN text.members
    /\ text.members["k"] =
            [type |-> "array",
             items |-> <<[type |-> "number", neg |-> FALSE, mag |-> I64Max + 1,
                          frac |-> FALSE, exp |-> FALSE]>>]
    /\ parseOut.ok
    /\ IsFloat(parseOut.table["k"].kind.v[1], FloatOf(FALSE, I64Max + 1, FALSE, FALSE))

====
